---- MODULE Spec2Model ----
(***************************************************************************)
(* Model of the sdc-papi package import scripts.                           *)
(*                                                                         *)
(*   bin/importer        main / savePapiPackages: load a list of packages, *)
(*                       validate each one and save it to PAPI through a   *)
(*                       vasync.forEachPipeline (one record at a time).    *)
(*   bin/ldap-import.js  main: load the packages, fetch the uuids already  *)
(*                       in moray, and call savePackage for every package  *)
(*                       whose uuid is not in that list.                   *)
(*                                                                         *)
(* The backend (lib/backend), the validator (lib/validations) and          *)
(* lib/shared are not part of the modelled sources: their results are the  *)
(* inputs of the handlers below, and the store's create / update follow    *)
(* the interface the specification gives for the target store.            *)
(***************************************************************************)
EXTENDS Integers, Sequences, FiniteSets, TLC

\* ------------------------------------------------------------------ bounds

\* Longest list of packages a loader hands to the save step.
MaxPkgs == 2

\* Number of times the importer is run over the same input.
MaxRuns == 2

\* The uuids packages are drawn from.
UUIDS == {"u1", "u2"}

\* A package as the save step sees it: its uuid, and whether
\* validations.validate accepts it against the backend schema.
Package == [uuid : UUIDS, valid : BOOLEAN]

\* All lists of at most n packages.
PkgLists(n) == UNION {[1..k -> Package] : k \in 0..n}

\* What the store holds under a uuid: src = 0 for an object that was there
\* before the run, src = i for the object written from packages[i].
StoredObj == [uuid : UUIDS, src : 0..(MaxPkgs + 1)]

\* Initial store contents: any subset of the uuids, one old object each.
InitialStores == {{[uuid |-> u, src |-> 0] : u \in S} : S \in SUBSET UUIDS}

VARIABLES
    packages,   \* the list the loader produced (same for both scripts)
    config,     \* [dryrun, overwrite]: config.dryrun, config.overwrite
    store,      \* the target bucket: a set of StoredObj
    pc,         \* importer: where the process is
    idx,        \* importer: position of forEachPipeline in packages
    success,    \* importer: var success (line 561)
    inflight,   \* importer: store calls whose callback has not run yet
    calls,      \* importer: every createPkg / updatePkg call and its answer
    log,        \* importer: per-record log lines, [run, idx, outcome]
    summary,    \* importer: the counts logged at line 607, one per run
    exits,      \* importer: exit status of each finished run
    storeAt,    \* importer: store contents at the start and end of each run
    lpc,        \* ldap-import: where the process is
    luuids,     \* ldap-import: uuids returned by shared.loadPackages
    ldone,      \* ldap-import: var done (line 253)
    lsaving,    \* ldap-import: indexes with a savePackage call in flight
    lsaved,     \* ldap-import: every savePackage call made, in order
    lexit,      \* ldap-import: exit status, <<>> while running
    started,    \* importer: [run, what] for a loader error and a backend.init call
    rawIn,      \* decode: the raw record as the source supplied it
    obj,        \* decode: the record object decode works on, in place
    dlog,       \* decode: the warnings and errors decode has logged
    results,    \* decode: what each call of decode on obj returned
    jsonRows,   \* JSON loader: the lines of the file
    jsonOut,    \* JSON loader: <<>> or the one callback made, [err, packages]
    jsonLog,    \* JSON loader: the lines reported as failing to parse
    ldifRows,   \* LDIF loader: the lines of the file
    ldifOut,    \* LDIF loader: <<>> or the one callback made, [err, packages]
    ldifBlocks, \* LDIF loader: each lookup as assembled, before decode
    ustage,     \* directory loader: where the session is
    uarrived,   \* directory loader: the entries the search has streamed
    upackages,  \* directory loader: var packages (line 498)
    uevents,    \* directory loader: the events emitted so far, in order
    ucalls      \* directory loader: the calls of cb made, [err, packages]

importerVars == <<pc, idx, success, inflight, calls, log, summary, exits, storeAt,
                  started>>
ldapVars == <<lpc, luuids, ldone, lsaving, lsaved, lexit>>
decodeVars == <<rawIn, obj, dlog, results>>
jsonVars == <<jsonRows, jsonOut, jsonLog>>
ldifVars == <<ldifRows, ldifOut, ldifBlocks>>
ufdsVars == <<ustage, uarrived, upackages, uevents, ucalls>>
loaderVars == <<decodeVars, jsonVars, ldifVars, ufdsVars>>
vars == <<packages, config, store, importerVars, ldapVars, loaderVars>>

\* The run in progress (1-based).
run == Len(exits) + 1

\* No record is being decoded.
DecodeIdle ==
    /\ rawIn = <<>>
    /\ obj = <<>>
    /\ dlog = <<>>
    /\ results = <<>>

\* No JSON file is being loaded.
JsonIdle ==
    /\ jsonRows = <<>>
    /\ jsonOut = <<>>
    /\ jsonLog = <<>>

\* No LDIF file is being loaded.
LdifIdle ==
    /\ ldifRows = <<>>
    /\ ldifOut = <<>>
    /\ ldifBlocks = <<>>

\* No directory search is running.
UfdsIdle ==
    /\ ustage = "idle"
    /\ uarrived = <<>>
    /\ upackages = <<>>
    /\ uevents = <<>>
    /\ ucalls = <<>>

Init ==
    /\ DecodeIdle /\ JsonIdle /\ LdifIdle /\ UfdsIdle
    /\ started = {}
    /\ packages \in PkgLists(MaxPkgs)
    /\ config \in [dryrun : BOOLEAN, overwrite : BOOLEAN]
    /\ store \in InitialStores
    /\ pc = "load"
    /\ idx = 1
    /\ success = 0
    /\ inflight = {}
    /\ calls = <<>>
    /\ log = <<>>
    /\ summary = <<>>
    /\ exits = <<>>
    /\ storeAt = <<[start |-> store, end |-> store]>>
    /\ lpc = "load"
    /\ luuids = {}
    /\ ldone = 0
    /\ lsaving = {}
    /\ lsaved = <<>>
    /\ lexit = <<>>

\* ------------------------------------------------- the target store (PAPI)

\* The uuids the store holds an object for.
Keys(st) == {o.uuid : o \in st}

\* The store's answers to a write, as the importer's callback tests them.
AlreadyExists == "ObjectAlreadyExistsError"
StoreError == "Error"
NoError == "null"

\* backend.createPkg: create-only write keyed by uuid. The store is the
\* authority on duplicates: it answers AlreadyExists and leaves the object
\* alone when the key is taken; `fail` is any other failure it reports.
createPkg(st, uuid, src, fail) ==
    IF fail THEN [err |-> StoreError, store |-> st]
    ELSE IF uuid \in Keys(st) THEN [err |-> AlreadyExists, store |-> st]
    ELSE [err |-> NoError, store |-> st \cup {[uuid |-> uuid, src |-> src]}]

\* backend.updatePkg: create-or-update keyed by uuid.
updatePkg(st, uuid, src, fail) ==
    IF fail THEN [err |-> StoreError, store |-> st]
    ELSE [err |-> NoError,
          store |-> {o \in st : o.uuid # uuid} \cup {[uuid |-> uuid, src |-> src]}]

\* validations.validate(pkg, backend.schema): errors or nothing.
validationErrs(pkg) == ~pkg.valid

\* ------------------------------------------------------ importer: helpers

\* process.exit codes.
ExitOk == 0
ExitError == 1

\* forEachPipeline has one input in progress at a time.
PipelineWidth == 1

\* Variant of savePkgBranch: the dryrun test is missing.
savePkgBranchNoDryrun(pkg, cfg) ==
    IF validationErrs(pkg) THEN "invalid" ELSE "write"

\* Variant of savePkgBranch: the validation errors are logged but the
\* function does not return.
savePkgBranchNoReturn(pkg, cfg) ==
    IF cfg.dryrun THEN "simulated" ELSE "write"

\* savePkg, lines 563-577: what is done with a package before any write.
savePkgBranch(pkg, cfg) ==
    IF validationErrs(pkg) THEN "invalid"
    ELSE IF cfg.dryrun THEN "simulated"
    ELSE "write"

\* Variant of creator: the create-or-update is always taken.
creatorAlwaysUpdate(cfg) == "updatePkg"

\* Variant of creator: the two operations are the wrong way round.
creatorSwapped(cfg) == IF cfg.overwrite THEN "createPkg" ELSE "updatePkg"

\* savePkg, lines 580-581: updatePkg does a create-or-update.
creator(cfg) == IF cfg.overwrite THEN "updatePkg" ELSE "createPkg"

\* The bound creator, called at line 599.
create(op, st, uuid, src, fail) ==
    IF op = "updatePkg" THEN updatePkg(st, uuid, src, fail)
    ELSE createPkg(st, uuid, src, fail)

\* Variant of outcomeOf: the already-exists test of line 586 is missing.
outcomeOfNoExistsTest(err2) ==
    IF err2 # NoError THEN "failed" ELSE "imported"

\* The write callback, lines 585-594: the line it logs.
outcomeOf(err2) ==
    IF err2 = AlreadyExists THEN "exists"
    ELSE IF err2 # NoError THEN "failed"
    ELSE "imported"

\* Variant of successAfter: an already existing package is counted too.
successAfterCountsExisting(n, err2) ==
    IF err2 = AlreadyExists THEN n + 1
    ELSE IF err2 # NoError THEN n
    ELSE n + 1

\* The write callback, line 593: success++ on the success branch only.
successAfter(n, err2) ==
    IF err2 = AlreadyExists THEN n
    ELSE IF err2 # NoError THEN n
    ELSE n + 1

\* Variant of nextArg: the write callback hands a store error on to next().
nextArgPassesError(err2) == IF err2 = StoreError THEN err2 ELSE NoError

\* What savePkg passes to next(), lines 571, 576 and 596: never an error.
nextArg(err2) == NoError

\* Variant of pipelineNext: the input after the following one is taken.
pipelineNextSkips(i, err, n) == IF err = NoError THEN i + 2 ELSE n + 1

\* vasync.forEachPipeline, lines 602-603: after next() the following input
\* is taken; after next(err) the remaining inputs are dropped and the final
\* callback is called.
pipelineNext(i, err, n) == IF err = NoError THEN i + 1 ELSE n + 1

\* The per-record line written to the log by savePkg for packages[i].
Logged(i, outcome) == Append(log, [run |-> run, idx |-> i, outcome |-> outcome])

\* process.exit(code): the run is over; the store is what it leaves behind.
Exit(code, st) ==
    /\ exits' = Append(exits, code)
    /\ storeAt' = [storeAt EXCEPT ![run].end = st]
    /\ pc' = "exited"

\* ------------------------------------------------------ importer: actions

\* Variant of LoaderError: the error is reported but main goes on to
\* savePapiPackages.
LoaderErrorGoesOn ==
    /\ pc = "load"
    /\ pc' = "init"
    /\ started' = started \cup {[run |-> run, what |-> "loaderError"],
                                [run |-> run, what |-> "backend.init"]}
    /\ UNCHANGED <<packages, config, store, idx, success, inflight, calls,
                   log, summary, exits, storeAt, ldapVars, loaderVars>>

\* main, lines 678-680: the loader reports an error; perror exits 1.
LoaderError ==
    /\ pc = "load"
    /\ Exit(ExitError, store)
    /\ started' = started \cup {[run |-> run, what |-> "loaderError"]}
    /\ UNCHANGED <<packages, config, store, idx, success, inflight, calls,
                   log, summary, ldapVars, loaderVars>>

\* main, lines 678-686: the loader hands over the packages and
\* savePapiPackages starts backend.init (lines 555-557).
LoaderDone ==
    /\ pc = "load"
    /\ pc' = "init"
    /\ started' = started \cup {[run |-> run, what |-> "backend.init"]}
    /\ UNCHANGED <<packages, config, store, idx, success, inflight, calls,
                   log, summary, exits, storeAt, ldapVars, loaderVars>>

\* savePapiPackages, lines 557-559: backend.init fails; perror exits 1.
BackendInitError ==
    /\ pc = "init"
    /\ Exit(ExitError, store)
    /\ UNCHANGED <<packages, config, store, idx, success, inflight, calls,
                   log, summary, started, ldapVars, loaderVars>>

\* savePapiPackages, lines 557-612: backend.init succeeds; success = 0 and
\* the pipeline is started on the first input.
BackendInitDone ==
    /\ pc = "init"
    /\ success' = 0
    /\ idx' = 1
    /\ pc' = "pipe"
    /\ UNCHANGED <<packages, config, store, inflight, calls, log, summary,
                   exits, storeAt, started, ldapVars, loaderVars>>

\* savePkg, lines 562-600, up to its return: an invalid package and a dry
\* run call next() at once; otherwise the write is issued and next() waits
\* for its callback.
SavePkg ==
    /\ pc = "pipe"
    /\ idx <= Len(packages)
    /\ LET pkg == packages[idx]
           branch == savePkgBranch(pkg, config)
       IN  IF branch = "write"
           THEN /\ inflight' = inflight \cup {[op |-> creator(config), idx |-> idx,
                                                call |-> Len(calls) + 1]}
                /\ calls' = Append(calls, [run |-> run, op |-> creator(config),
                                            idx |-> idx, uuid |-> pkg.uuid,
                                            err |-> "pending"])
                /\ pc' = "store"
                /\ UNCHANGED <<idx, log>>
           ELSE /\ log' = Logged(idx, branch)
                /\ idx' = pipelineNext(idx, nextArg(NoError), Len(packages))
                /\ UNCHANGED <<inflight, calls, pc>>
    /\ UNCHANGED <<packages, config, store, success, summary, exits, storeAt,
                   started, ldapVars, loaderVars>>

\* The store answers a write and the callback of lines 585-597 runs: it logs
\* the outcome, counts a success, and calls next().
WriteCallback ==
    /\ pc = "store"
    /\ \E c \in inflight, fail \in BOOLEAN :
         LET r == create(c.op, store, packages[c.idx].uuid, c.idx, fail)
         IN  /\ store' = r.store
             /\ log' = Logged(c.idx, outcomeOf(r.err))
             /\ success' = successAfter(success, r.err)
             /\ calls' = [calls EXCEPT ![c.call].err = r.err]
             /\ inflight' = inflight \ {c}
             /\ idx' = pipelineNext(c.idx, nextArg(r.err), Len(packages))
    /\ pc' = "pipe"
    /\ UNCHANGED <<packages, config, summary, exits, storeAt, started, ldapVars, loaderVars>>

\* The pipeline's final callback, lines 603-610, and main's callback, lines
\* 684-686: the count is logged, the backend closed and the process exits 0.
PipelineDone ==
    /\ pc = "pipe"
    /\ idx > Len(packages)
    /\ summary' = Append(summary, [run |-> run, imported |-> success])
    /\ Exit(ExitOk, store)
    /\ UNCHANGED <<packages, config, store, idx, success, inflight, calls,
                   log, started, ldapVars, loaderVars>>

\* The operator runs the importer again on the same input and options.
Rerun ==
    /\ pc = "exited"
    /\ Len(exits) < MaxRuns
    /\ pc' = "load"
    /\ idx' = 1
    /\ success' = 0
    /\ storeAt' = Append(storeAt, [start |-> store, end |-> store])
    /\ UNCHANGED <<packages, config, store, inflight, calls, log, summary,
                   exits, started, ldapVars, loaderVars>>

\* --------------------------------------------------- ldap-import: helpers

\* shared.loadPackages(client, bucket, cb): the uuids in the bucket.
loadPackages(st) == Keys(st)

\* shared.savePackage(client, p, bucket, cb): puts the package under its
\* uuid; `fail` is a failure the store reports.
savePackage(st, uuid, src, fail) ==
    IF fail THEN [err |-> StoreError, store |-> st]
    ELSE [err |-> NoError,
          store |-> {o \in st : o.uuid # uuid} \cup {[uuid |-> uuid, src |-> src]}]

\* Line 264: the test made for each package against the fetched list.
missing(uuids, p) == p.uuid \notin uuids

\* Lines 263-281: the indexes forEach calls savePackage for, in order.
toSave(pkgs, uuids) ==
    LET wanted(i) == missing(uuids, pkgs[i])
    IN  SelectSeq([i \in 1..Len(pkgs) |-> i], wanted)

\* Lines 277-280: the packages forEach counts as done at once.
skipped(pkgs, uuids) == {i \in 1..Len(pkgs) : ~missing(uuids, pkgs[i])}

\* Variant of allDone: one package may still be outstanding.
allDoneButOne(done, pkgs) == done + 1 >= Len(pkgs)

\* Lines 255-261: checkDone exits when done equals packages.length.
allDone(done, pkgs) == done = Len(pkgs)

LdapExit(code) ==
    /\ lexit' = <<code>>
    /\ lpc' = "exited"

\* --------------------------------------------------- ldap-import: actions

\* main, lines 229-232: loadUFDFSPackages reports an error.
LdapLoadError ==
    /\ lpc = "load"
    /\ LdapExit(ExitError)
    /\ UNCHANGED <<packages, config, store, importerVars, luuids, ldone,
                   lsaving, lsaved, loaderVars>>

\* main, lines 229-242: the packages are loaded and shared.morayClient is
\* called.
LdapLoadDone ==
    /\ lpc = "load"
    /\ lpc' = "moray"
    /\ UNCHANGED <<packages, config, store, importerVars, luuids, ldone,
                   lsaving, lsaved, lexit, loaderVars>>

\* main, lines 242-245: no moray client.
LdapMorayError ==
    /\ lpc = "moray"
    /\ LdapExit(ExitError)
    /\ UNCHANGED <<packages, config, store, importerVars, luuids, ldone,
                   lsaving, lsaved, loaderVars>>

\* main, lines 242-247: the client is there and shared.loadPackages is
\* called.
LdapMorayDone ==
    /\ lpc = "moray"
    /\ lpc' = "fetch"
    /\ UNCHANGED <<packages, config, store, importerVars, luuids, ldone,
                   lsaving, lsaved, lexit, loaderVars>>

\* main, lines 247-250: shared.loadPackages reports an error.
LdapFetchError ==
    /\ lpc = "fetch"
    /\ LdapExit(ExitError)
    /\ UNCHANGED <<packages, config, store, importerVars, luuids, ldone,
                   lsaving, lsaved, loaderVars>>

\* The store reads the list of uuids for shared.loadPackages; the answer is
\* on its way to the callback of line 247.
LdapFetch ==
    /\ lpc = "fetch"
    /\ luuids' = loadPackages(store)
    /\ lpc' = "uuids"
    /\ UNCHANGED <<packages, config, store, importerVars, ldone, lsaving,
                   lsaved, lexit, loaderVars>>

\* Another client of the bucket adds an object while ldap-import runs.
OtherWriter ==
    /\ lpc \in {"uuids", "wait"}
    /\ \E u \in UUIDS \ Keys(store) :
         store' = store \cup {[uuid |-> u, src |-> 0]}
    /\ UNCHANGED <<packages, config, importerVars, ldapVars, loaderVars>>

\* main, lines 247-283, the callback of shared.loadPackages in one turn of
\* the event loop: done = 0, the forEach over packages (savePackage for a
\* uuid not in the list, done += 1 for the others) and the first checkDone.
LdapSaveAll ==
    /\ lpc = "uuids"
    /\ LET saves == toSave(packages, luuids)
           done == Cardinality(skipped(packages, luuids))
       IN  /\ lsaving' = {saves[k] : k \in 1..Len(saves)}
           /\ lsaved' = [k \in 1..Len(saves) |->
                           [idx |-> saves[k],
                            uuid |-> packages[saves[k]].uuid,
                            inStore |-> packages[saves[k]].uuid \in Keys(store)]]
           /\ ldone' = done
           /\ IF allDone(done, packages)
              THEN LdapExit(ExitOk)
              ELSE lpc' = "wait" /\ UNCHANGED lexit
    /\ UNCHANGED <<packages, config, store, importerVars, luuids, loaderVars>>

\* The callback of one savePackage call, lines 265-276: the result is
\* logged and done += 1.
LdapSaveCallback ==
    /\ lpc = "wait"
    /\ \E i \in lsaving, fail \in BOOLEAN :
         /\ store' = savePackage(store, packages[i].uuid, i, fail).store
         /\ lsaving' = lsaving \ {i}
    /\ ldone' = ldone + 1
    /\ UNCHANGED <<packages, config, importerVars, lpc, luuids, lsaved, lexit,
                   loaderVars>>

\* checkDone run by its timer, lines 255-261: exit 0 when done equals
\* packages.length, otherwise the timer is set again.
LdapCheckDone ==
    /\ lpc = "wait"
    /\ IF allDone(ldone, packages)
       THEN LdapExit(ExitOk)
       ELSE UNCHANGED <<lpc, lexit>>
    /\ UNCHANGED <<packages, config, store, importerVars, luuids, ldone,
                   lsaving, lsaved, loaderVars>>

LdapNext ==
    \/ LdapLoadError
    \/ LdapLoadDone
    \/ LdapMorayError
    \/ LdapMorayDone
    \/ LdapFetchError
    \/ LdapFetch
    \/ OtherWriter
    \/ LdapSaveAll
    \/ LdapSaveCallback
    \/ LdapCheckDone

SpecLdap == Init /\ [][LdapNext]_vars

\* The store calls back for every savePackage call, and the timer set at
\* line 259 runs checkDone again.
LiveSpecLdap ==
    /\ SpecLdap
    /\ WF_vars(LdapSaveCallback)
    /\ WF_vars(LdapCheckDone)

Next ==
    \/ LoaderError
    \/ LoaderDone
    \/ BackendInitError
    \/ BackendInitDone
    \/ SavePkg
    \/ WriteCallback
    \/ PipelineDone
    \/ Rerun

Spec == Init /\ [][Next]_vars

\* The event loop runs a ready callback, the store answers every write, and
\* the pipeline's final callback is called once the inputs are used up.
LiveSpec ==
    /\ Spec
    /\ WF_vars(SavePkg)
    /\ WF_vars(WriteCallback)
    /\ WF_vars(PipelineDone)

\* ------------------------------------------------------------------ claims

Idxs == 1..Len(packages)
Runs == 1..run

\* The log lines of run r about packages[i].
OutcomesOf(r, i) == {k \in DOMAIN log : log[k].run = r /\ log[k].idx = i}

\* The outcomes logged in run r for packages[i].
OutcomeSet(r, i) == {log[k].outcome : k \in OutcomesOf(r, i)}

\* The store calls of run r for packages[i].
CallsOf(r, i) == {k \in DOMAIN calls : calls[k].run = r /\ calls[k].idx = i}

\* The completion callback of savePapiPackages was invoked in run r.
Completed(r) == \E k \in DOMAIN summary : summary[k].run = r

\* Run r is over.
Exited(r) == r <= Len(exits)

\* The store reported a failure other than already-exists in run r.
StoreFailed(r) == \E k \in DOMAIN calls : calls[k].run = r /\ calls[k].err = StoreError

Terminal == {"invalid", "simulated", "imported", "exists", "failed"}

C1_Safe ==
    /\ \A k \in DOMAIN log : log[k].outcome \in Terminal /\ log[k].idx \in Idxs
    /\ \A r \in Runs, i \in Idxs :
         /\ Cardinality(OutcomesOf(r, i)) <= 1
         /\ Cardinality(CallsOf(r, i)) <= 1
         /\ Completed(r) => Cardinality(OutcomesOf(r, i)) = 1
    /\ \A r \in Runs : Completed(r) =>
         \A k \in DOMAIN calls : calls[k].run = r => calls[k].err # "pending"

\* C1: in savePapiPackages every input record is processed exactly once and
\* gets exactly one terminal outcome (invalid, simulated import, imported,
\* already exists, failed) whatever the validation results and store
\* answers; the completion callback is invoked only after every record has
\* its outcome, and once the pipeline has started it is eventually invoked.
C1_EveryRecordOneOutcome ==
    /\ []C1_Safe
    /\ (pc = "pipe") ~> (pc = "exited" /\ Completed(Len(exits)))

C1_Witness ==
    /\ Completed(1)
    /\ Len(packages) = 2
    /\ OutcomeSet(1, 1) = {"failed"}
    /\ OutcomeSet(1, 2) = {"invalid"}

\* C2: when the store's create/update reports an error other than
\* already-exists for a record, that record gets the failed outcome, the
\* run does not end before every record after it has been processed, and
\* it ends through the completion callback.
C2_StoreErrorDoesNotAbort ==
    \A k \in DOMAIN calls : calls[k].err = StoreError =>
        /\ OutcomeSet(calls[k].run, calls[k].idx) = {"failed"}
        /\ Exited(calls[k].run) =>
             /\ Completed(calls[k].run)
             /\ \A j \in Idxs : j > calls[k].idx =>
                    Cardinality(OutcomesOf(calls[k].run, j)) = 1

C2_Witness ==
    /\ Completed(1)
    /\ Len(packages) = 2
    /\ \E k \in DOMAIN calls :
         calls[k].run = 1 /\ calls[k].idx = 1 /\ calls[k].err = StoreError
    /\ OutcomeSet(1, 2) = {"imported"}

\* The uuids of the input list.
InputUuids == {packages[i].uuid : i \in Idxs}

AllValid == \A i \in Idxs : packages[i].valid
DistinctUuids == \A i, j \in Idxs : packages[i].uuid = packages[j].uuid => i = j

\* C3: two runs over the same valid records with distinct uuids, overwrite
\* (and dryrun) unset, against a store that held none of them and answers
\* every create with success or already-exists: the first run imports
\* every record, the second reports every record as already existing and
\* none as failed, and the store after the second run is the store after
\* the first.
C3_RerunSkipsDuplicates ==
    ( /\ ~config.overwrite /\ ~config.dryrun
      /\ AllValid /\ DistinctUuids
      /\ InputUuids \cap Keys(storeAt[1].start) = {}
      /\ Completed(1) /\ Completed(2)
      /\ ~StoreFailed(1) /\ ~StoreFailed(2) )
    => /\ \A i \in Idxs : OutcomeSet(1, i) = {"imported"}
       /\ \A i \in Idxs : OutcomeSet(2, i) = {"exists"}
       /\ storeAt[2].end = storeAt[1].end
       /\ Keys(storeAt[1].end) = Keys(storeAt[1].start) \cup InputUuids

C3_Witness ==
    /\ ~config.overwrite /\ ~config.dryrun
    /\ AllValid /\ DistinctUuids
    /\ Len(packages) = 2
    /\ InputUuids \cap Keys(storeAt[1].start) = {}
    /\ Completed(1) /\ Completed(2)
    /\ ~StoreFailed(1) /\ ~StoreFailed(2)

\* The objects the store holds under uuid u.
Held(st, u) == {o \in st : o.uuid = u}

\* Index i is the first occurrence of its uuid in the input list.
FirstOccurrence(i) == \A j \in Idxs : packages[j].uuid = packages[i].uuid => i <= j

\* C4: at most one store write is in flight at any time, so two writes for
\* the same uuid never are; when the input list holds a uuid more than
\* once, overwrite (and dryrun) are unset, the uuid is not in the store at
\* the start, its occurrences pass validation and the store reports no
\* other failure, the first occurrence is imported, every later one gets
\* already-exists, and the store holds exactly one object for the uuid.
C4_DuplicateUuidsDoNotRace ==
    /\ Cardinality(inflight) <= 1
    /\ \A u \in UUIDS : Cardinality(Held(store, u)) <= 1
    /\ \A r \in Runs, i \in Idxs :
         ( /\ ~config.overwrite /\ ~config.dryrun
           /\ Completed(r) /\ ~StoreFailed(r)
           /\ packages[i].uuid \notin Keys(storeAt[r].start)
           /\ \E j \in Idxs : j # i /\ packages[j].uuid = packages[i].uuid
           /\ \A j \in Idxs : packages[j].uuid = packages[i].uuid => packages[j].valid )
         => /\ OutcomeSet(r, i) = IF FirstOccurrence(i) THEN {"imported"} ELSE {"exists"}
            /\ Cardinality(Held(storeAt[r].end, packages[i].uuid)) = 1
            /\ \A o \in Held(storeAt[r].end, packages[i].uuid) : FirstOccurrence(o.src)

C4_Witness ==
    /\ ~config.overwrite /\ ~config.dryrun
    /\ Len(packages) = 2
    /\ packages[1].uuid = packages[2].uuid
    /\ AllValid
    /\ packages[1].uuid \notin Keys(storeAt[1].start)
    /\ Completed(1) /\ ~StoreFailed(1)
    /\ OutcomeSet(1, 2) = {"exists"}

\* C5: in ldap-import.js main, savePackage is never invoked for a uuid
\* that is in the store at the time of the call or that was already
\* submitted for saving in the same run.
C5_SaveOnlyNewUuids ==
    \A k \in DOMAIN lsaved :
        /\ ~lsaved[k].inStore
        /\ \A j \in 1..(k - 1) : lsaved[j].uuid # lsaved[k].uuid

\* C6: in each import script the number of store writes in flight at the
\* same time stays within a fixed bound (the pipeline's one) however many
\* records the input holds.
C6_BoundedWritesInFlight ==
    /\ Cardinality(inflight) <= PipelineWidth
    /\ Cardinality(lsaving) <= PipelineWidth

\* C7: with dryrun set savePapiPackages makes no createPkg or updatePkg
\* call, whatever the input and the overwrite flag, and the store stays
\* what it was at the start of the run.
C7_DryrunLeavesStoreAlone ==
    config.dryrun =>
        /\ calls = <<>>
        /\ inflight = {}
        /\ \A r \in DOMAIN storeAt : store = storeAt[r].start /\ storeAt[r].end = storeAt[r].start

C7_Witness ==
    /\ config.dryrun /\ config.overwrite
    /\ Len(packages) = 2
    /\ AllValid
    /\ InputUuids \cap Keys(store) # {}
    /\ InputUuids \ Keys(store) # {}
    /\ Completed(1)

\* C8: with dryrun set and N input records that all pass validation, the
\* count of imported packages reported at the end of savePapiPackages is N.
C8_DryrunSummaryCountsAll ==
    (config.dryrun /\ AllValid) =>
        \A k \in DOMAIN summary : summary[k].imported = Len(packages)

\* C9: a record validations.validate rejects never reaches the store: no
\* createPkg / updatePkg call is made for it, its only outcome is invalid,
\* it is not counted as imported, and the records after it are processed;
\* every store call is for a record that passed validation.
C9_InvalidNeverReachesStore ==
    /\ \A k \in DOMAIN calls : packages[calls[k].idx].valid
    /\ \A c \in inflight : packages[c.idx].valid
    /\ \A k \in DOMAIN log : ~packages[log[k].idx].valid => log[k].outcome = "invalid"
    /\ success <= Cardinality({i \in Idxs : packages[i].valid})
    /\ \A k \in DOMAIN summary :
         summary[k].imported <= Cardinality({i \in Idxs : packages[i].valid})
    /\ \A r \in Runs, i \in Idxs :
         (~packages[i].valid /\ Exited(r) /\ OutcomesOf(r, i) # {}) =>
             \A j \in Idxs : j > i => Cardinality(OutcomesOf(r, j)) = 1

C9_Witness ==
    /\ ~config.dryrun
    /\ Len(packages) = 2
    /\ ~packages[1].valid /\ packages[2].valid
    /\ Completed(1)
    /\ OutcomeSet(1, 1) = {"invalid"}
    /\ OutcomeSet(1, 2) = {"imported"}

\* Some record of run r ended with the failed outcome.
SomeFailed(r) == \E k \in DOMAIN log : log[k].run = r /\ log[k].outcome = "failed"

\* C10: the exit status of an importer run is 0 if and only if no fatal
\* error occurred and no record ended with the failed outcome.
C10_ExitStatusReflectsFailures ==
    \A r \in DOMAIN exits :
        exits[r] = ExitOk <=> (Completed(r) /\ ~SomeFailed(r))

\* The loader reported an error in run r.
LoaderFailed(r) == [run |-> r, what |-> "loaderError"] \in started

\* backend.init was called in run r.
BackendInitCalled(r) == [run |-> r, what |-> "backend.init"] \in started

\* C11: when the selected source loader reports an error the run ends with
\* a non-zero exit status, no target-store operation (backend.init,
\* createPkg, updatePkg) is started in it and no import summary is
\* reported for it.
C11_LoaderErrorIsFatal ==
    \A r \in Runs : LoaderFailed(r) =>
        /\ Exited(r)
        /\ exits[r] # ExitOk
        /\ ~BackendInitCalled(r)
        /\ \A k \in DOMAIN calls : calls[k].run # r
        /\ \A k \in DOMAIN log : log[k].run # r
        /\ ~Completed(r)
        /\ storeAt[r].end = storeAt[r].start

C11_Witness ==
    /\ Completed(1)
    /\ Len(calls) > 0
    /\ LoaderFailed(2)
    /\ Exited(2)

\* ------------------------------------------- the directory loader (UFDS)

\* Most entries one search streams.
MaxEntries == 3

\* The entries the directory can return.
EntryIds == {"e1", "e2", "e3"}

\* The status an 'end' event carries: success, or sizeLimitExceeded after
\* part of the result was sent.
EndStatuses == {0, 4}

\* Neither import script is running.
ImporterIdle ==
    /\ packages = <<>>
    /\ config = [dryrun |-> FALSE, overwrite |-> FALSE]
    /\ store = {}
    /\ pc = "load"
    /\ idx = 1
    /\ success = 0
    /\ inflight = {}
    /\ calls = <<>>
    /\ log = <<>>
    /\ summary = <<>>
    /\ exits = <<>>
    /\ storeAt = <<[start |-> {}, end |-> {}]>>
    /\ started = {}
    /\ lpc = "load"
    /\ luuids = {}
    /\ ldone = 0
    /\ lsaving = {}
    /\ lsaved = <<>>
    /\ lexit = <<>>

\* loadUfdsPackages, lines 497-514: the client is created, its 'error' and
\* 'timeout' listeners are set and bind is called.
InitUfds ==
    /\ ImporterIdle /\ DecodeIdle /\ JsonIdle /\ LdifIdle
    /\ ustage = "bind"
    /\ uarrived = <<>>
    /\ upackages = <<>>
    /\ uevents = <<>>
    /\ ucalls = <<>>

\* Variant of endIsError: the status of the 'end' event is not looked at.
endIsErrorNever(status) == FALSE

\* Line 537: an 'end' with a non-zero status is an error.
endIsError(status) == status # 0

\* cb(err) as main passes it, lines 678-680: perror ends the process, so no
\* later event is handled.
UfdsFail(event) ==
    /\ uevents' = Append(uevents, event)
    /\ ucalls' = Append(ucalls, [err |-> TRUE, packages |-> <<>>])
    /\ ustage' = "exited"
    /\ UNCHANGED <<uarrived, upackages>>

\* The session is open: the client can still emit 'error' and 'timeout'.
UfdsOpen == ustage \in {"bind", "search", "stream", "unbind"}

\* Lines 506-508: the client emits 'error'.
UfdsClientError ==
    /\ UfdsOpen
    /\ UfdsFail("error")
    /\ UNCHANGED <<packages, config, store, importerVars, ldapVars,
                   decodeVars, jsonVars, ldifVars>>

\* Lines 510-512: the client emits 'timeout'.
UfdsClientTimeout ==
    /\ UfdsOpen
    /\ UfdsFail("timeout")
    /\ UNCHANGED <<packages, config, store, importerVars, ldapVars,
                   decodeVars, jsonVars, ldifVars>>

\* Lines 514-516: bind fails.
UfdsBindError ==
    /\ ustage = "bind"
    /\ UfdsFail("bindError")
    /\ UNCHANGED <<packages, config, store, importerVars, ldapVars,
                   decodeVars, jsonVars, ldifVars>>

\* Lines 514-523: bind succeeds and the search is sent.
UfdsBound ==
    /\ ustage = "bind"
    /\ ustage' = "search"
    /\ UNCHANGED <<packages, config, store, importerVars, ldapVars,
                   decodeVars, jsonVars, ldifVars, uarrived, upackages,
                   uevents, ucalls>>

\* Lines 523-525: the search is refused.
UfdsSearchError ==
    /\ ustage = "search"
    /\ UfdsFail("searchError")
    /\ UNCHANGED <<packages, config, store, importerVars, ldapVars,
                   decodeVars, jsonVars, ldifVars>>

\* Lines 523-543: the search is under way and the listeners for
\* 'searchEntry', 'error' and 'end' are set on its result.
UfdsSearching ==
    /\ ustage = "search"
    /\ ustage' = "stream"
    /\ UNCHANGED <<packages, config, store, importerVars, ldapVars,
                   decodeVars, jsonVars, ldifVars, uarrived, upackages,
                   uevents, ucalls>>

\* Lines 527-530: an entry arrives; it is decoded and pushed.
UfdsSearchEntry ==
    /\ ustage = "stream"
    /\ Len(uarrived) < MaxEntries
    /\ \E e \in EntryIds \ {uarrived[k] : k \in DOMAIN uarrived} :
         /\ uarrived' = Append(uarrived, e)
         /\ upackages' = Append(upackages, e)
    /\ uevents' = Append(uevents, "searchEntry")
    /\ UNCHANGED <<packages, config, store, importerVars, ldapVars,
                   decodeVars, jsonVars, ldifVars, ustage, ucalls>>

\* Lines 532-534: the result emits 'error'.
UfdsResultError ==
    /\ ustage = "stream"
    /\ UfdsFail("resultError")
    /\ UNCHANGED <<packages, config, store, importerVars, ldapVars,
                   decodeVars, jsonVars, ldifVars>>

\* Lines 536-540: the result emits 'end'; a non-zero status is handed to cb
\* as an error, otherwise the client is unbound first.
UfdsEnd ==
    /\ ustage = "stream"
    /\ \E status \in EndStatuses :
         IF endIsError(status)
         THEN UfdsFail("endWithError")
         ELSE /\ uevents' = Append(uevents, IF status = 0 THEN "end" ELSE "endWithError")
              /\ ustage' = "unbind"
              /\ UNCHANGED <<uarrived, upackages, ucalls>>
    /\ UNCHANGED <<packages, config, store, importerVars, ldapVars,
                   decodeVars, jsonVars, ldifVars>>

\* Lines 540-542: the unbind is done, the session is closed and cb gets the
\* packages.
UfdsUnbound ==
    /\ ustage = "unbind"
    /\ ucalls' = Append(ucalls, [err |-> FALSE, packages |-> upackages])
    /\ ustage' = "delivered"
    /\ UNCHANGED <<packages, config, store, importerVars, ldapVars,
                   decodeVars, jsonVars, ldifVars, uarrived, upackages, uevents>>

UfdsNext ==
    \/ UfdsClientError
    \/ UfdsClientTimeout
    \/ UfdsBindError
    \/ UfdsBound
    \/ UfdsSearchError
    \/ UfdsSearching
    \/ UfdsSearchEntry
    \/ UfdsResultError
    \/ UfdsEnd
    \/ UfdsUnbound

SpecUfds == InitUfds /\ [][UfdsNext]_vars

\* The events that make the load a failure.
FailureEvents ==
    {"error", "timeout", "bindError", "searchError", "resultError", "endWithError"}

\* Such an event has been emitted.
UfdsFailureSeen == \E k \in DOMAIN uevents : uevents[k] \in FailureEvents

\* C12: for the directory loader, under every interleaving of searchEntry,
\* error, timeout and end events, cb gets a successful list only if the
\* search ended with status 0 and no error or timeout came before, and the
\* list then holds every entry streamed, in arrival order; once an error, a
\* timeout or a non-zero end status has occurred, also after entries were
\* received, the caller has got an error and never gets a successful list.
C12_NoTruncatedSuccess ==
    /\ \A k \in DOMAIN ucalls : ~ucalls[k].err =>
         /\ ~UfdsFailureSeen
         /\ \E j \in DOMAIN uevents : uevents[j] = "end"
         /\ ucalls[k].packages = uarrived
    /\ UfdsFailureSeen =>
         /\ ucalls # <<>>
         /\ \A k \in DOMAIN ucalls : ucalls[k].err
    /\ ustage = "delivered" => \E k \in DOMAIN ucalls : ~ucalls[k].err

C12_Witness ==
    /\ Len(uarrived) = 2
    /\ uevents[Len(uevents)] = "endWithError"
    /\ ucalls = <<[err |-> TRUE, packages |-> <<>>]>>

\* ------------------------------------------- JavaScript values

\* A value: its type, its text (strings, numbers, booleans; for an object
\* its JSON text) and its elements (arrays of strings).
Undef == [t |-> "undefined", s |-> "", l |-> <<>>]
Null == [t |-> "null", s |-> "", l |-> <<>>]
Str(x) == [t |-> "string", s |-> x, l |-> <<>>]
Num(x) == [t |-> "number", s |-> x, l |-> <<>>]
Bool(b) == [t |-> "boolean", s |-> IF b THEN "true" ELSE "false", l |-> <<>>]
List(q) == [t |-> "array", s |-> "", l |-> q]
Obj(json) == [t |-> "object", s |-> json, l |-> <<>>]
NaN == Num("NaN")

\* What an expression evaluates to when it throws.
Thrown == [t |-> "throw", s |-> "", l |-> <<>>]

\* if (v)
Truthy(v) ==
    CASE v.t = "string" -> v.s # ""
      [] v.t = "number" -> v.s \notin {"0", "NaN"}
      [] v.t = "boolean" -> v.s = "true"
      [] v.t \in {"array", "object"} -> TRUE
      [] OTHER -> FALSE

\* a === b: NaN is equal to nothing, itself included.
StrictEquals(a, b) == IF a = NaN \/ b = NaN THEN FALSE ELSE a = b

RECURSIVE Join(_)
\* Array.prototype.join(',')
Join(q) ==
    IF q = <<>> THEN ""
    ELSE IF Len(q) = 1 THEN q[1]
    ELSE q[1] \o "," \o Join(Tail(q))

\* String(v)
StringOf(v) ==
    CASE v.t \in {"string", "number", "boolean"} -> v.s
      [] v.t = "array" -> Join(v.l)
      [] v.t = "object" -> "[object Object]"
      [] v.t = "null" -> "null"
      [] OTHER -> "undefined"

\* The decimal texts of the model.
Numerals == {"0", "5"}

\* Number(text)
NumberOfText(x) ==
    IF x \in Numerals THEN Num(x)
    ELSE IF x = "" THEN Num("0")
    ELSE NaN

\* Number(v)
Number(v) ==
    CASE v.t = "number" -> v
      [] v.t = "boolean" -> IF v.s = "true" THEN Num("1") ELSE Num("0")
      [] v.t = "null" -> Num("0")
      [] v.t \in {"string", "array"} -> NumberOfText(StringOf(v))
      [] OTHER -> NaN

\* JSON.parse of a text that holds a value other than a record.
JSONparseText(x) ==
    CASE x \in {"{}", "{\"k\":1}"} -> Obj(x)
      [] x = "[]" -> List(<<>>)
      [] x = "[\"a\",\"b\"]" -> List(<<"a", "b">>)
      [] x \in Numerals -> Num(x)
      [] x = "\"x\"" -> Str("x")
      [] x = "true" -> Bool(TRUE)
      [] x = "false" -> Bool(FALSE)
      [] x = "null" -> Null
      [] OTHER -> Thrown

\* JSON.parse(v): the argument is converted to a string first.
JSONparse(v) == JSONparseText(StringOf(v))

\* ------------------------------------------- decode

\* Lines 320-326.
attrs2ignore ==
    <<"dn", "objectclass", "controls", "overprovision_cpu",
      "overprovision_memory", "overprovision_storage",
      "overprovision_network", "overprovision_io", "urn">>
attrs2numerify ==
    <<"max_physical_memory", "max_swap", "vcpus", "cpu_cap",
      "max_lwps", "quota", "zfs_io_priority", "fss",
      "cpu_burst_ratio", "ram_ratio">>
attrs2boolean == <<"active", "default">>

\* The elements of a sequence.
Range(q) == {q[k] : k \in DOMAIN q}

\* The attribute names a record can carry; an attribute that is Undef is
\* absent.
Fields ==
    Range(attrs2ignore) \cup Range(attrs2numerify) \cup Range(attrs2boolean)
        \cup {"uuid", "networks", "owner_uuid", "owner_uuids", "traits",
              "min_platform"}

\* The record with no attribute.
EmptyRecord == [f \in Fields |-> Undef]

\* The raw values of the attributes that vary.
RawQuota == {Undef, Str("5"), Str("abc")}
RawActive == {Undef, Str("true"), Str("yes")}
RawNetworks ==
    {Undef, Str("[\"a\",\"b\"]"), Str("5"), Str("abc"), List(<<"a", "b">>),
     Obj("{\"k\":1}")}
RawOwnerUuid ==
    {Undef, Str("abc"), Str(""), Str("[\"a\",\"b\"]"), Str("5"),
     List(<<"a", "b">>)}
RawOwnerUuids == {Undef, List(<<"z">>)}
RawTraits == {Undef, Str("{\"k\":1}"), Str("not-json{"), Str(""), Str("\"x\"")}
RawMinPlatform == {Undef, Str("{\"k\":1}"), Str("")}
RawDn == {Undef, Str("uuid=u1, ou=packages, o=smartdc")}

\* The raw records decode is given.
RawRecords ==
    {[f \in Fields |->
        CASE f = "uuid" -> Str("u1")
          [] f = "dn" -> dn
          [] f = "quota" -> quota
          [] f = "active" -> active
          [] f = "networks" -> networks
          [] f = "owner_uuid" -> owner_uuid
          [] f = "owner_uuids" -> owner_uuids
          [] f = "traits" -> traits
          [] f = "min_platform" -> min_platform
          [] OTHER -> Undef] :
        dn \in RawDn, quota \in RawQuota, active \in RawActive,
        networks \in RawNetworks, owner_uuid \in RawOwnerUuid,
        owner_uuids \in RawOwnerUuids, traits \in RawTraits,
        min_platform \in RawMinPlatform}

\* Lines 329-331: delete obj[a] for every ignored attribute.
ignoreStep(o) ==
    [f \in Fields |-> IF f \in Range(attrs2ignore) THEN Undef ELSE o[f]]

\* Lines 334-335: a truthy value of a numeric attribute becomes Number(value).
numerifyStep(o) ==
    [f \in Fields |->
        IF f \in Range(attrs2numerify) /\ Truthy(o[f]) THEN Number(o[f]) ELSE o[f]]

\* Lines 337-338: one warning for every numeric attribute with
\* obj[a] === NaN.
numerifyWarnings(o) ==
    LET hits == SelectSeq(attrs2numerify, LAMBDA a : StrictEquals(o[a], NaN))
    IN  [k \in 1..Len(hits) |-> "Number is NaN"]

\* Lines 341-346.
booleanStep(o) ==
    [f \in Fields |->
        IF f \in Range(attrs2boolean) /\ o[f] # Undef
        THEN Bool(StrictEquals(o[f], Str("true")) \/ StrictEquals(o[f], Bool(TRUE)))
        ELSE o[f]]

\* Lines 348-360: the new networks value and what is logged.
networksStep(n) ==
    IF ~Truthy(n) THEN [val |-> n, log |-> <<>>]
    ELSE IF n.t = "string"
    THEN LET p == JSONparse(n)
         IN  IF p = Thrown
             THEN [val |-> List(<<>>), log |-> <<"Error importing networks">>]
             ELSE [val |-> p, log |-> <<>>]
    ELSE IF n.t # "array"
    THEN [val |-> List(<<>>), log |-> <<"Error importing networks">>]
    ELSE [val |-> n, log |-> <<>>]

\* Lines 363-378: the new owner_uuid and owner_uuids and what is logged.
ownerStep(owner_uuid, owner_uuids) ==
    IF ~Truthy(owner_uuid)
    THEN [owner_uuid |-> owner_uuid, owner_uuids |-> owner_uuids, log |-> <<>>]
    ELSE IF owner_uuid.t = "string"
    THEN LET p == JSONparse(owner_uuid)
         IN  [owner_uuid |-> Undef,
              owner_uuids |-> IF p = Thrown THEN List(<<owner_uuid.s>>) ELSE p,
              log |-> <<>>]
    ELSE IF owner_uuid.t # "array"
    THEN [owner_uuid |-> Undef, owner_uuids |-> List(<<>>),
          log |-> <<"Error importing owners">>]
    ELSE [owner_uuid |-> Undef, owner_uuids |-> owner_uuid, log |-> <<>>]

\* Lines 380-387 and 389-396: the new value of traits or min_platform and
\* what is logged.
blobStep(v, name) ==
    IF ~Truthy(v) THEN [val |-> v, log |-> <<>>]
    ELSE LET p == JSONparse(v)
         IN  IF p = Thrown
             THEN [val |-> Obj("{}"), log |-> <<"Error importing " \o name>>]
             ELSE [val |-> p, log |-> <<>>]

\* decode(obj, log), lines 328-399: the object as decode leaves it and
\* returns it, and what it logged.
decode(o) ==
    LET o1 == numerifyStep(ignoreStep(o))
        o2 == booleanStep(o1)
        n == networksStep(o2["networks"])
        w == ownerStep(o2["owner_uuid"], o2["owner_uuids"])
        tr == blobStep(o2["traits"], "traits")
        mp == blobStep(o2["min_platform"], "min_platform")
    IN  [obj |-> [f \in Fields |->
                    CASE f = "networks" -> n.val
                      [] f = "owner_uuid" -> w.owner_uuid
                      [] f = "owner_uuids" -> w.owner_uuids
                      [] f = "traits" -> tr.val
                      [] f = "min_platform" -> mp.val
                      [] OTHER -> o2[f]],
         log |-> numerifyWarnings(o1) \o n.log \o w.log \o tr.log \o mp.log]

\* Most calls of decode on one record object.
MaxDecodes == 2

\* A raw record has been built by a loader and not decoded yet.
InitDecode ==
    /\ ImporterIdle /\ JsonIdle /\ LdifIdle /\ UfdsIdle
    /\ rawIn \in RawRecords
    /\ obj = rawIn
    /\ dlog = <<>>
    /\ results = <<>>

\* One call of decode on the record object.
DecodeCall ==
    /\ Len(results) < MaxDecodes
    /\ LET d == decode(obj)
       IN  /\ obj' = d.obj
           /\ dlog' = dlog \o d.log
           /\ results' = Append(results, d)
    /\ UNCHANGED <<packages, config, store, importerVars, ldapVars, rawIn,
                   jsonVars, ldifVars, ufdsVars>>

SpecDecode == InitDecode /\ [][DecodeCall]_vars

\* decode has returned at least once.
Decoded == Len(results) >= 1

\* C13: calling decode a second time on the record object the first call
\* was given returns a record identical to what the first call returned.
C13_DecodeRepeatable ==
    Len(results) >= 2 => results[2].obj = results[1].obj

\* The attributes of the numeric coercion list.
NumericFields == Range(attrs2numerify)

\* C14: when the raw value of a numeric attribute is a string that does not
\* convert to a number, decode logs a warning and the attribute is absent
\* from the result; no decoded record holds NaN in a numeric attribute.
C14_NaNWarnedAndDropped ==
    \A a \in NumericFields :
        /\ \A k \in DOMAIN results : results[k].obj[a] # NaN
        /\ (Decoded /\ rawIn[a].t = "string" /\ Number(rawIn[a]) = NaN) =>
               /\ results[1].obj[a] = Undef
               /\ "Number is NaN" \in Range(results[1].log)

\* The attributes that hold nested objects.
BlobFields == {"traits", "min_platform"}

\* C15: after decode traits and min_platform are never strings: a raw string
\* (the empty string and the JSON text of a string included) is replaced by
\* the object it encodes or, failing that, by an empty object with a warning.
C15_BlobsNeverStrings ==
    \A f \in BlobFields :
        /\ \A k \in DOMAIN results : results[k].obj[f].t # "string"
        /\ (Decoded /\ rawIn[f].t = "string") =>
               LET p == JSONparse(rawIn[f])
               IN  IF p.t = "object"
                   THEN results[1].obj[f] = p
                   ELSE /\ results[1].obj[f] = Obj("{}")
                        /\ ("Error importing " \o f) \in Range(results[1].log)

\* C16: a raw networks string becomes the value it encodes exactly when that
\* value is a list, and the empty list with a warning otherwise; a networks
\* attribute present after decode is a list.
C16_NetworksAlwaysList ==
    /\ \A k \in DOMAIN results :
           results[k].obj["networks"] # Undef =>
               results[k].obj["networks"].t = "array"
    /\ (Decoded /\ rawIn["networks"].t = "string") =>
           LET p == JSONparse(rawIn["networks"])
           IN  IF p.t = "array"
               THEN results[1].obj["networks"] = p
               ELSE /\ results[1].obj["networks"] = List(<<>>)
                    /\ "Error importing networks" \in Range(results[1].log)

\* C17: when the raw record carries owner_uuids, decode leaves that value as
\* the source supplied it, also when owner_uuid is present as well.
C17_PluralKeyNotMigrated ==
    (Decoded /\ rawIn["owner_uuids"] # Undef) =>
        results[1].obj["owner_uuids"] = rawIn["owner_uuids"]

\* What the migration makes of a raw owner_uuid that is a string or a list.
MigratedOwners(v) ==
    IF v.t = "array" THEN v
    ELSE IF JSONparse(v).t = "array" THEN JSONparse(v)
    ELSE List(<<v.s>>)

\* C18: when the raw record carries owner_uuid as a string (the empty string
\* and the JSON text of a non-list included) or as a list, the decoded
\* record has no owner_uuid and its owner_uuids is a list: the list the
\* string encodes, else the list of the raw string alone, or the list as it
\* was.
C18_LegacyOwnerMigrated ==
    (/\ Decoded
     /\ rawIn["owner_uuid"].t \in {"string", "array"}
     /\ rawIn["owner_uuids"] = Undef) =>
        /\ results[1].obj["owner_uuid"] = Undef
        /\ results[1].obj["owner_uuids"] = MigratedOwners(rawIn["owner_uuid"])

\* ------------------------------------------- the JSON loader

\* Most lines of a JSON file.
MaxJsonLines == 3

\* The lines that hold a JSON object, and the record each one parses to.
ObjectLines ==
    {"{\"uuid\":\"u1\"}", "{\"uuid\":\"u2\",\"traits\":\"not-json{\"}"}
RecordOfLine(x) ==
    IF x = "{\"uuid\":\"u1\"}"
    THEN [EmptyRecord EXCEPT !["uuid"] = Str("u1")]
    ELSE [EmptyRecord EXCEPT !["uuid"] = Str("u2"), !["traits"] = Str("not-json{")]

\* The lines a file is made of: a blank line, the object lines, a line that
\* is not JSON, and lines that are JSON but hold no object.
JsonLineTexts == ObjectLines \cup {"", "{bad", "5", "null"}

\* All sequences over S of length 1..n.
SeqsUpTo(S, n) == UNION {[1..m -> S] : m \in 1..n}

\* jsonRows.split('\n'), line 412.
JsonTexts == SeqsUpTo(JsonLineTexts, MaxJsonLines)

\* An element of the mapped array: a record, another value, or null.
RecordElement(r) == [kind |-> "record", rec |-> r, val |-> Undef]
ValueElement(v) == [kind |-> "value", rec |-> EmptyRecord, val |-> v]
NullElement == [kind |-> "null", rec |-> EmptyRecord, val |-> Null]

\* Lines 413-418: the element one line maps to and what is logged.  decode
\* of null throws at the first delete; decode of any other value that is not
\* a record finds none of its attributes and returns the value as it is.
mapLine(json) ==
    IF json \in ObjectLines
    THEN LET d == decode(RecordOfLine(json))
         IN  [el |-> RecordElement(d.obj),
              log |-> [k \in DOMAIN d.log |-> [msg |-> d.log[k], json |-> json]]]
    ELSE LET p == JSONparseText(json)
         IN  IF p = Thrown \/ p = Null
             THEN [el |-> NullElement,
                   log |-> <<[msg |-> "Error parsing JSON", json |-> json]>>]
             ELSE [el |-> ValueElement(p), log |-> <<>>]

\* Line 421: return p.
keepElement(el) ==
    CASE el.kind = "record" -> TRUE
      [] el.kind = "value" -> Truthy(el.val)
      [] OTHER -> FALSE

RECURSIVE FlattenLogs(_)
\* The log entries of all lines, in line order.
FlattenLogs(q) == IF q = <<>> THEN <<>> ELSE Head(q).log \o FlattenLogs(Tail(q))

\* A JSON file is about to be read.
InitJson ==
    /\ ImporterIdle /\ DecodeIdle /\ LdifIdle /\ UfdsIdle
    /\ jsonRows \in JsonTexts
    /\ jsonOut = <<>>
    /\ jsonLog = <<>>

\* Lines 409-410: the file cannot be read.
JsonReadError ==
    /\ jsonRows # <<>>
    /\ jsonOut = <<>>
    /\ jsonOut' = <<[err |-> TRUE, packages |-> <<>>]>>
    /\ UNCHANGED <<packages, config, store, importerVars, ldapVars, decodeVars,
                   jsonRows, jsonLog, ldifVars, ufdsVars>>

\* Lines 412-423: the file has been read; every line is mapped, the falsy
\* elements are dropped and cb gets the rest.
JsonLoaded ==
    /\ jsonRows # <<>>
    /\ jsonOut = <<>>
    /\ LET mapped == [k \in DOMAIN jsonRows |-> mapLine(jsonRows[k])]
           els == [k \in DOMAIN mapped |-> mapped[k].el]
       IN  /\ jsonOut' = <<[err |-> FALSE, packages |-> SelectSeq(els, keepElement)]>>
           /\ jsonLog' = FlattenLogs(mapped)
    /\ UNCHANGED <<packages, config, store, importerVars, ldapVars, decodeVars,
                   jsonRows, ldifVars, ufdsVars>>

JsonNext == JsonReadError \/ JsonLoaded

SpecJson == InitJson /\ [][JsonNext]_vars

\* The line holds a JSON object.
IsObjectLine(x) == x \in ObjectLines

\* The line is not blank and is not JSON.
IsMalformedLine(x) == x # "" /\ ~IsObjectLine(x) /\ JSONparseText(x) = Thrown

\* The decoded record of every line that holds a JSON object, in line order.
DecodedObjectLines ==
    LET lines == SelectSeq(jsonRows, IsObjectLine)
    IN  [k \in DOMAIN lines |-> RecordElement(decode(RecordOfLine(lines[k])).obj)]

\* C19: for every text that was read, loadJsonPackages hands cb, without
\* error, exactly the decoded records of the lines that hold a JSON object,
\* in line order, and nothing else; a line that fails to parse is reported
\* and skipped, and blank lines give no record.
C19_OneRecordPerObjectLine ==
    \A k \in DOMAIN jsonOut : ~jsonOut[k].err =>
        /\ jsonOut[k].packages = DecodedObjectLines
        /\ \A x \in Range(jsonRows) : IsMalformedLine(x) =>
               [msg |-> "Error parsing JSON", json |-> x] \in Range(jsonLog)

\* ------------------------------------------- the LDIF loader

\* Most lines of an LDIF file.
MaxLdifLines == 4

\* A line: blank, or an attribute line 'name: text' (b64 FALSE) or
\* 'name:: text' (b64 TRUE).
BlankLine == [kind |-> "blank", name |-> "", b64 |-> FALSE, text |-> ""]
AttrLine(name, text) == [kind |-> "attr", name |-> name, b64 |-> FALSE, text |-> text]
Base64Line(name, text) == [kind |-> "attr", name |-> name, b64 |-> TRUE, text |-> text]

\* The lines a file is made of.
LdifLines ==
    {BlankLine, AttrLine("uuid", "u1"), AttrLine("uuid", "u2"),
     AttrLine("networks", "n1"),
     Base64Line("networks", "bjI="), Base64Line("networks", "="),
     AttrLine("networks", "")}

\* ldif.split('\n'), line 447.
LdifTexts == SeqsUpTo(LdifLines, MaxLdifLines)

\* Line 461: /^([^:]+?):(:? .+)$/ needs at least one character of text.
lineMatch(line) == line.kind = "attr" /\ line.text # ""

\* '' + new Buffer(text, 'base64'), line 470.
Base64Decode(x) ==
    CASE x = "bjI=" -> "n2"
      [] x = "=" -> ""

\* The value an attribute line carries.
LineValue(line) == IF line.b64 THEN Base64Decode(line.text) ELSE line.text

\* Lines 466-483: lookup[name] after the line.
accumulate(orig, value) ==
    IF Truthy(orig)
    THEN IF orig.t = "array"
         THEN List(Append(orig.l, value))
         ELSE List(<<orig.s, value>>)
    ELSE Str(value)

\* Lines 447-485, one line: st holds lookup, packages, the attribute lines
\* read since the last blank line and every lookup handed to decode.
ldifLine(line, st) ==
    IF line.kind = "blank"
    THEN IF st.lookup # EmptyRecord
         THEN LET d == decode(st.lookup)
              IN  [lookup |-> EmptyRecord,
                   cur |-> <<>>,
                   packages |-> IF Truthy(d.obj["uuid"])
                                THEN Append(st.packages, d.obj)
                                ELSE st.packages,
                   blocks |-> Append(st.blocks,
                                     [lines |-> st.cur, lookup |-> st.lookup])]
         ELSE [st EXCEPT !.cur = <<>>]
    ELSE IF lineMatch(line)
    THEN [st EXCEPT !.lookup[line.name] =
                        accumulate(st.lookup[line.name], LineValue(line)),
                    !.cur = Append(st.cur, line)]
    ELSE [st EXCEPT !.cur = Append(st.cur, line)]

RECURSIVE ldifFold(_, _)
\* Lines 447-485: forEach over the lines.
ldifFold(lines, st) ==
    IF lines = <<>> THEN st ELSE ldifFold(Tail(lines), ldifLine(Head(lines), st))

\* An LDIF file is about to be read.
InitLdif ==
    /\ ImporterIdle /\ DecodeIdle /\ JsonIdle /\ UfdsIdle
    /\ ldifRows \in LdifTexts
    /\ ldifOut = <<>>
    /\ ldifBlocks = <<>>

\* Lines 441-442: the file cannot be read.
LdifReadError ==
    /\ ldifRows # <<>>
    /\ ldifOut = <<>>
    /\ ldifOut' = <<[err |-> TRUE, packages |-> <<>>]>>
    /\ UNCHANGED <<packages, config, store, importerVars, ldapVars, decodeVars,
                   jsonVars, ldifRows, ldifBlocks, ufdsVars>>

\* Lines 444-487: the file has been read and cb gets the packages.
LdifLoaded ==
    /\ ldifRows # <<>>
    /\ ldifOut = <<>>
    /\ LET st == ldifFold(ldifRows, [lookup |-> EmptyRecord, cur |-> <<>>,
                                     packages |-> <<>>, blocks |-> <<>>])
       IN  /\ ldifOut' = <<[err |-> FALSE, packages |-> st.packages]>>
           /\ ldifBlocks' = st.blocks
    /\ UNCHANGED <<packages, config, store, importerVars, ldapVars, decodeVars,
                   jsonVars, ldifRows, ufdsVars>>

LdifNext == LdifReadError \/ LdifLoaded

SpecLdif == InitLdif /\ [][LdifNext]_vars

\* The values of the lines of a block that carry the attribute, in line
\* order.
ValuesOf(lines, name) ==
    LET own == SelectSeq(lines, LAMBDA line : line.name = name)
    IN  [k \in DOMAIN own |-> LineValue(own[k])]

\* C20: in every object block an attribute that occurs once is assembled to
\* its single value and an attribute that occurs k >= 2 times to the list of
\* all k values in line order, none overwritten or lost; a block holds
\* nothing of the block before it.
C20_RepeatedAttributesAccumulate ==
    \A b \in DOMAIN ldifBlocks : \A name \in Fields :
        LET vals == ValuesOf(ldifBlocks[b].lines, name)
        IN  ldifBlocks[b].lookup[name] =
                IF vals = <<>> THEN Undef
                ELSE IF Len(vals) = 1 THEN Str(vals[1])
                ELSE List(vals)

\* ------------------------------------------- the importer, further claims

\* The store calls of run r whose callback reported success.
SucceededCalls(r) ==
    {k \in DOMAIN calls : calls[k].run = r /\ calls[k].err = NoError}

\* The records run r logged as imported.
ImportedIdxs(r) == {i \in Idxs : "imported" \in OutcomeSet(r, i)}

\* The count run r reported at the end of savePapiPackages.
ReportedCounts(r) == {summary[k].imported : k \in {j \in DOMAIN summary : summary[j].run = r}}

\* A run with dryrun unset that has completed reports exactly the number of
\* records whose write callback reported success.
CountIsExact ==
    \A r \in Runs : (Completed(r) /\ ~config.dryrun) =>
        /\ ReportedCounts(r) = {Cardinality(SucceededCalls(r))}
        /\ Cardinality(SucceededCalls(r)) = Cardinality(ImportedIdxs(r))
        /\ \A k \in SucceededCalls(r) : Cardinality(CallsOf(r, calls[k].idx)) = 1

\* A step of a run in progress does not lower the counter.
CountNeverDecreases ==
    (pc \in {"pipe", "store"} /\ pc' \in {"pipe", "store", "exited"}) =>
        success' >= success

\* C21: when savePapiPackages completes with dryrun unset, the count it
\* reports is exactly the number of input records whose createPkg or
\* updatePkg callback reported success, each counted once and no invalid,
\* already existing or failed record counted; the counter never decreases
\* during the run.
C21_CountEqualsSuccessfulWrites == []CountIsExact /\ [][CountNeverDecreases]_vars

C21_Witness ==
    /\ ~config.dryrun /\ ~config.overwrite
    /\ Len(packages) = 2
    /\ Completed(1)
    /\ OutcomeSet(1, 1) = {"imported"}
    /\ OutcomeSet(1, 2) = {"exists"}
    /\ ReportedCounts(1) = {1}

\* The store call of run r for packages[i] reported a failure other than
\* already-exists.
CallFailed(r, i) == \E k \in CallsOf(r, i) : calls[k].err = StoreError

\* C22: the write operation is chosen by the overwrite flag alone.  With
\* overwrite unset every store write is a createPkg keyed by the record's
\* uuid: an object the store already holds under that uuid is left as it
\* is and the record is reported as already existing, not as an error.
\* With overwrite set every store write is an updatePkg keyed by the uuid
\* and createPkg is never called.
C22_OverwriteFlagChoosesWrite ==
    /\ \A k \in DOMAIN calls :
         /\ calls[k].op = IF config.overwrite THEN "updatePkg" ELSE "createPkg"
         /\ calls[k].uuid = packages[calls[k].idx].uuid
    /\ ~config.overwrite =>
         /\ \A o \in storeAt[1].start : o \in store
         /\ \A k \in DOMAIN calls : calls[k].err = AlreadyExists =>
                OutcomeSet(calls[k].run, calls[k].idx) = {"exists"}
         /\ \A r \in Runs, i \in Idxs :
              ( /\ ~config.dryrun
                /\ Completed(r)
                /\ packages[i].valid
                /\ packages[i].uuid \in Keys(storeAt[r].start)
                /\ ~CallFailed(r, i) )
              => /\ OutcomeSet(r, i) = {"exists"}
                 /\ Held(storeAt[r].end, packages[i].uuid)
                      = Held(storeAt[r].start, packages[i].uuid)

C22_Witness ==
    /\ ~config.overwrite /\ ~config.dryrun
    /\ Completed(1)
    /\ \E i \in Idxs :
         /\ packages[i].valid
         /\ packages[i].uuid \in Keys(storeAt[1].start)
         /\ OutcomeSet(1, i) = {"exists"}
         /\ \E k \in CallsOf(1, i) : calls[k].op = "createPkg"
    /\ \E i \in Idxs : OutcomeSet(1, i) = {"imported"}

\* ------------------------------------------- the LDIF loader, further claims

RECURSIVE SplitBlocks(_, _)
\* The object blocks of a text: the maximal runs of lines that are not
\* blank, in order; cur is the run being read.
SplitBlocks(lines, cur) ==
    IF lines = <<>> THEN (IF cur = <<>> THEN <<>> ELSE <<cur>>)
    ELSE IF Head(lines).kind = "blank"
    THEN (IF cur = <<>> THEN <<>> ELSE <<cur>>) \o SplitBlocks(Tail(lines), <<>>)
    ELSE SplitBlocks(Tail(lines), Append(cur, Head(lines)))

\* The block has a uuid attribute.
HasUuid(block) == \E k \in DOMAIN block : block[k].name = "uuid"

\* The uuid of a block, as a record carries it.
UuidOf(block) ==
    LET vals == ValuesOf(block, "uuid")
    IN  IF Len(vals) = 1 THEN Str(vals[1]) ELSE List(vals)

\* The uuids of the blocks of the text that have one, in input order.
ExpectedUuids ==
    LET blocks == SelectSeq(SplitBlocks(ldifRows, <<>>), HasUuid)
    IN  [k \in DOMAIN blocks |-> UuidOf(blocks[k])]

\* C23: loadLdifPackages hands cb exactly one record, in input order, for
\* every object block of the text that has a uuid attribute and none for a
\* block without, however the text ends: the last block is emitted also
\* when no blank line (or no final newline) follows it, and consecutive
\* blank lines give no extra or empty record.
C23_OneRecordPerUuidBlock ==
    \A k \in DOMAIN ldifOut : ~ldifOut[k].err =>
        [j \in DOMAIN ldifOut[k].packages |-> ldifOut[k].packages[j]["uuid"]]
            = ExpectedUuids

\* ------------------------------------------- ldap-import, further claims

\* The packages savePackage was called for.
SubmittedIdxs == {lsaved[k].idx : k \in DOMAIN lsaved}

\* ldap-import has exited with status 0.
LdapExitedOk == lexit = <<ExitOk>>

\* done never exceeds packages.length, and at an exit with status 0 it
\* equals it: every package was skipped as existing or has had its
\* savePackage callback invoked.
DoneCountsEveryPackage ==
    /\ ldone <= Len(packages)
    /\ LdapExitedOk =>
         /\ ldone = Len(packages)
         /\ lsaving = {}
         /\ \A i \in Idxs : i \in skipped(packages, luuids) \/ i \in SubmittedIdxs

\* C24: ldap-import exits with status 0 only when every loaded package has
\* been skipped as already existing or has had its savePackage callback
\* invoked (done equals packages.length and never exceeds it); and when
\* every savePackage callback is invoked, once, the process exits.
C24_ExitOnlyWhenAllDone ==
    /\ []DoneCountsEveryPackage
    /\ (lpc = "wait") ~> (lpc = "exited")

C24_Witness ==
    /\ LdapExitedOk
    /\ Len(packages) = 2
    /\ Len(lsaved) = 1
    /\ Cardinality(skipped(packages, luuids)) = 1
    /\ ldone = 2

====
